---- MODULE Spec2Model ----
(***************************************************************************)
(* Model of the shift-report script Code.gs (Google Apps Script).          *)
(*                                                                         *)
(* The spreadsheet holds one sheet of raw shift rows per city and the      *)
(* roster sheet 'All'.  processSelectedDates(start, end) validates the     *)
(* range, clears old report sheets, ingests the raw rows, loads the        *)
(* roster, classifies every date of the range, writes the daily sheets,    *)
(* writes Master_Report and shows a notification.                          *)
(*                                                                         *)
(* Representation.                                                         *)
(*  - A text the code trims or matches (employee id, shift status) is a    *)
(*    sequence of one-character strings.  A cell read by getValues() is    *)
(*    [num, s]: s is String(cell), num tells a numeric cell from a text.   *)
(*  - Contract and city names are only concatenated and compared; they    *)
(*    are TLA+ strings.                                                    *)
(*  - A calendar date is its day number.  The date picker delivers         *)
(*    "yyyy-MM-dd" (UTC midnight); the key Utilities.formatDate(d, GMT+2,  *)
(*    "yyyy-MM-dd") of such a date is its own day, and the model takes     *)
(*    the script time zone to have no clock change inside the range, so    *)
(*    setDate(getDate() + 1) advances the key by one day.  A row's         *)
(*    plannedStartDate cell is held as the day number of its key.          *)
(*  - A time cell is empty, a Date cell, held as minutes of the day in      *)
(*    GMT+2, or a text that is no date.                                    *)
(***************************************************************************)
EXTENDS Integers, Sequences, FiniteSets, TLC

(***************************** Settings ************************************)
CONTRACTS ==
  << "Al Abtal", "Al Alamia", "bad El rahman", "El Tohami",
     "MTA", "Stop Car", "Tanta Car", "Tantawy",
     "Team mh for Delivery", "Wasaly", "Zero Zero Seven" >>

CITIES == << "Assiut", "Hurghada", "Ismalia", "Minya", "Port said", "Suez" >>

(***************************** Bounds **************************************)
\* rows over all city sheets
MaxRows == 2
\* rows of the 'All' sheet
MaxRoster == 2
\* days the date picker offers: 1 .. MaxDay
MaxDay == 2

Days == 1 .. MaxDay

(***************************** Sequences ***********************************)
\* Array.prototype.filter, the test given as the set of the indices it
\* accepts: the elements s[i], i in keep, in their order in s.
SelectSeqBy(s, keep) ==
  LET idx == keep \cap DOMAIN s
  IN [k \in 1 .. Cardinality(idx) |->
        s[CHOOSE i \in idx : Cardinality({j \in idx : j <= i}) = k]]

RECURSIVE Flatten(_)
Flatten(ss) ==
  IF ss = << >> THEN << >> ELSE Head(ss) \o Flatten(Tail(ss))

Reverse(s) == [i \in 1 .. Len(s) |-> s[Len(s) + 1 - i]]

Range(s) == {s[i] : i \in DOMAIN s}

(***************************** Texts ***************************************)
WhiteSpace == {" ", "\t"}

RECURSIVE TrimStart(_)
TrimStart(s) ==
  IF s # << >> /\ Head(s) \in WhiteSpace THEN TrimStart(Tail(s)) ELSE s

RECURSIVE TrimEnd(_)
TrimEnd(s) ==
  IF s # << >> /\ s[Len(s)] \in WhiteSpace
  THEN TrimEnd(SubSeq(s, 1, Len(s) - 1)) ELSE s

\* String.prototype.trim
Trim(s) == TrimEnd(TrimStart(s))

\* the letters of the pattern, lower case to upper case (flag i)
UpperOf ==
  [c \in {"n", "o", "s", "h", "w", "e", "x", "c", "u", "d"} |->
     CASE c = "n" -> "N" [] c = "o" -> "O" [] c = "s" -> "S" [] c = "h" -> "H"
       [] c = "w" -> "W" [] c = "e" -> "E" [] c = "x" -> "X" [] c = "c" -> "C"
       [] c = "u" -> "U" [] c = "d" -> "D"]

Canonicalize(c) == IF c \in DOMAIN UpperOf THEN UpperOf[c] ELSE c

Fold(s) == [i \in 1 .. Len(s) |-> Canonicalize(s[i])]

\* s has the text p as a substring
Contains(s, p) ==
  \E i \in 1 .. (Len(s) - Len(p) + 1) : SubSeq(s, i, i + Len(p) - 1) = p

NO_SHOW == << "N", "O", "_", "S", "H", "O", "W" >>
EXCUSED == << "E", "X", "C", "U", "S", "E", "D" >>

\* /(NO_SHOW|EXCUSED)/i.test(s)
ExcludedPattern(s) == Contains(Fold(s), NO_SHOW) \/ Contains(Fold(s), EXCUSED)

(***************************** Cells ***************************************)
Text(s) == [num |-> FALSE, s |-> s]
Number(s) == [num |-> TRUE, s |-> s]

\* JavaScript truthiness of a cell value: "" and 0 are falsy
Truthy(cell) == IF cell.num THEN cell.s # << "0" >> ELSE cell.s # << >>

\* String(cell)
String(cell) == cell.s

NoTime == [kind |-> "empty", min |-> 0]
\* a text that new Date() does not parse
TextTime == [kind |-> "text", min |-> 0]
TimeOfDay(h, m) == [kind |-> "date", min |-> h * 60 + m]

Digit == << "0", "1", "2", "3", "4", "5", "6", "7", "8", "9" >>
TwoDigits(n) == Digit[(n \div 10) + 1] \o Digit[(n % 10) + 1]

\* a catch block that returns the empty text
formatTime_NoSentinel(time) ==
  IF time.kind = "date"
  THEN TwoDigits(time.min \div 60) \o ":" \o TwoDigits(time.min % 60)
  ELSE ""

\* formatTime: an empty cell is falsy; of a text that is no date new Date()
\* makes an invalid Date, Utilities.formatDate throws for it and the catch
\* returns the sentinel
formatTime(time) ==
  IF time.kind = "empty" THEN "Invalid Time"
  ELSE IF time.kind = "text" THEN "Invalid Time"
  ELSE TwoDigits(time.min \div 60) \o ":" \o TwoDigits(time.min % 60)

\* isValidShift
isValidShift(status) ==
  IF ~Truthy(status) THEN FALSE
  ELSE ~ExcludedPattern(Trim(String(status)))

(***************************** Input pools *********************************)
Chars_e1 == << "e", "1" >>
Chars_e2 == << "e", "2" >>
Chars_e3 == << "e", "3" >>
Chars_e4 == << "e", "4" >>
Completed == << "C", "o", "m", "p", "l", "e", "t", "e", "d" >>
Late == << "L", "a", "t", "e" >>
no_show == << "n", "o", "_", "s", "h", "o", "w" >>
Excused == << " ", "E", "x", "c", "u", "s", "e", "d", " ", "l", "a", "t", "e" >>

\* a raw row of a city sheet: the cells the code reads,
\* [1] employee id, [5] status, [7] planned start date, [9], [10] times
RawRow(id, status, day, st, et) ==
  [id |-> id, status |-> status, date |-> day, startTime |-> st, endTime |-> et]

\* rows a user may have in a city sheet (reports)
ShiftRowPool ==
  { RawRow(Text(Chars_e1), Text(Completed), 1, TimeOfDay(9, 0), TimeOfDay(17, 30)),
    RawRow(Text(<< " " >> \o Chars_e1 \o << " " >>), Text(Late), 1, NoTime, TimeOfDay(23, 5)),
    RawRow(Text(Chars_e2), Text(Completed), 2, TimeOfDay(0, 0), TextTime) }

\* rows a user may have in a city sheet (ingestion)
IngestRowPool ==
  ShiftRowPool \cup
  { RawRow(Text(Chars_e1), Text(no_show), 2, TimeOfDay(9, 0), TimeOfDay(17, 30)),
    RawRow(Text(<< >>), Text(Completed), 1, NoTime, NoTime),
    RawRow(Text(<< " ", "\t" >>), Text(Completed), 1, NoTime, NoTime),
    RawRow(Number(<< "0" >>), Text(Completed), 1, NoTime, NoTime),
    RawRow(Number(<< "7" >>), Text(Completed), 1, NoTime, NoTime),
    RawRow(Text(Chars_e2), Text(Excused), 1, NoTime, NoTime),
    RawRow(Text(Chars_e2), Text(<< >>), 1, NoTime, NoTime),
    RawRow(Text(Chars_e2), Text(<< " " >>), 1, NoTime, NoTime),
    RawRow(Text(Chars_e2), Number(<< "0" >>), 1, NoTime, NoTime) }

\* the city sheets the user edits
EditedCities == {"Assiut", "Suez"}

\* a row of the 'All' sheet: id, name, contract, city
RosterRow(id, contract, city) ==
  [id |-> id, name |-> "name", contract |-> contract, city |-> city]

RosterRowPool ==
  { RosterRow(Text(Chars_e1), "MTA", "Assiut"),
    RosterRow(Text(<< " " >> \o Chars_e2), "MTA", "Assiut"),
    RosterRow(Text(Chars_e3), "Al Abtal", "Suez"),
    RosterRow(Text(Chars_e4), "MTA ", "Assiut") }

(***************************** Sheets **************************************)
\* A sheet name is <<prefix, rest>>: the prefix up to its first underscore
\* when it is a daily sheet, "" otherwise.
PlainName(n) == << "", n >>
ShiftsName(d) == << "Shifts_", ToString(d) >>
UnassignedName(d) == << "Unassigned_", ToString(d) >>
MasterName == PlainName("Master_Report")

InputSheets == {PlainName(CITIES[i]) : i \in DOMAIN CITIES} \cup {PlainName("All")}

(***************************** State ***************************************)
VARIABLES
  cityRows,    \* city -> data rows of the city's sheet (below the header)
  allRows,     \* data rows of the 'All' sheet
  sheets,      \* names of the sheets of the spreadsheet
  pc,          \* position of processSelectedDates
  start, end,  \* the parsed arguments
  rawData,     \* result of prepareRawData
  dates,       \* result of getDateRange
  masterData,  \* result of getMasterData
  daily,       \* results of processDailyData, one per date processed
  report,      \* rows written to Master_Report
  error,       \* message of the exception thrown, "" when none
  alert,       \* the dialog shown to the user
  before,      \* the sheets of the spreadsheet when the run was started
  written,     \* the sheets this run has inserted or written
  deleteFailed \* the sheets whose deleteSheet threw in this run

vars == << cityRows, allRows, sheets, pc, start, end, rawData, dates,
           masterData, daily, report, error, alert, before, written,
           deleteFailed >>

(***************************** Data preparation ****************************)
\* the body of data.forEach in prepareRawData, for one city sheet
IngestSheet(city, rows) ==
  LET keep == {i \in DOMAIN rows : Truthy(rows[i].id) /\ isValidShift(rows[i].status)}
      kept == SelectSeqBy(rows, keep)
  IN [i \in 1 .. Len(kept) |->
        [employeeId |-> Trim(String(kept[i].id)),
         shiftStatus |-> Trim(String(kept[i].status)),
         plannedStartDate |-> kept[i].date,
         plannedStartTime |-> formatTime(kept[i].startTime),
         plannedEndTime |-> formatTime(kept[i].endTime),
         city |-> city]]

\* prepareRawData: the city sheets in the order of CITIES
prepareRawData(ss, rowsOf) ==
  Flatten([c \in DOMAIN CITIES |->
             IF PlainName(CITIES[c]) \notin ss \/ Len(rowsOf[CITIES[c]]) + 1 < 2
             THEN << >>
             ELSE IngestSheet(CITIES[c], rowsOf[CITIES[c]])])

\* getMasterData
getMasterData(ss, rows) ==
  IF PlainName("All") \notin ss \/ Len(rows) + 1 < 2 THEN << >>
  ELSE [i \in 1 .. Len(rows) |->
          [id |-> Trim(String(rows[i].id)),
           name |-> rows[i].name,
           contract |-> rows[i].contract,
           city |-> rows[i].city]]

(***************************** Date range **********************************)
RECURSIVE DateLoop(_, _, _)
\* the while loop of getDateRange
DateLoop(current, endDay, acc) ==
  IF current <= endDay
  THEN DateLoop(current + 1, endDay, Append(acc, current))
  ELSE acc

\* getDateRange with the loop test current < end
getDateRange_Exclusive(s, e) == DateLoop(s, e - 1, << >>)

\* getDateRange
getDateRange(s, e) == DateLoop(s, e, << >>)

\* the validation with its operands exchanged
StartAfterEnd_Swapped(s, e) == e > s

\* the test of "Validate dates" in processSelectedDates
StartAfterEnd(s, e) == s > e

(***************************** Daily processing ****************************)
\* Utilities.formatDate(date, TIME_ZONE, "yyyy-MM-dd")
DateKey(d) == d

\* processDailyData without the comparison of the row's date
processDailyData_AnyDate(raw, targetDate, master) ==
  LET assignedIds == {raw[i].employeeId : i \in DOMAIN raw}
  IN [assigned |-> raw,
      unassigned |->
        SelectSeqBy(master, {i \in DOMAIN master : master[i].id \notin assignedIds})]

\* processDailyData
processDailyData(raw, targetDate, master) ==
  LET assigned ==
        SelectSeqBy(raw, {i \in DOMAIN raw :
                            DateKey(raw[i].plannedStartDate) = DateKey(targetDate)})
      assignedIds == {assigned[i].employeeId : i \in DOMAIN assigned}
      unassigned ==
        SelectSeqBy(master, {i \in DOMAIN master : master[i].id \notin assignedIds})
  IN [assigned |-> assigned, unassigned |-> unassigned]

(***************************** Master report *******************************)
\* A JavaScript Map is the sequence of its entries [key, value] in insertion
\* order.
MapHas(m, key) == \E i \in DOMAIN m : m[i].key = key

MapIndex(m, key) == CHOOSE i \in DOMAIN m : m[i].key = key

MapGet(m, key) == m[MapIndex(m, key)].value

\* Map.prototype.set: a present key keeps its position
MapSet(m, key, value) ==
  IF MapHas(m, key)
  THEN [m EXCEPT ![MapIndex(m, key)].value = value]
  ELSE Append(m, [key |-> key, value |-> value])

\* `${a}_${b}`
CompositeKey(a, b) == a \o "_" \o b

\* the initialisation with CITIES.forEach around CONTRACTS.forEach
InitContractMap_CitiesFirst ==
  [k \in 1 .. Len(CONTRACTS) * Len(CITIES) |->
     LET contract == CONTRACTS[((k - 1) % Len(CONTRACTS)) + 1]
         city == CITIES[((k - 1) \div Len(CONTRACTS)) + 1]
     IN [key |-> CompositeKey(contract, city),
         value |-> [contract |-> contract, city |-> city, total |-> 0,
                    dates |-> << >>]]]

\* "Initialize contract map with all contracts and cities": CONTRACTS.forEach
\* around CITIES.forEach.  No two pairs have the same key, so every set()
\* appends an entry: entry (i - 1) * Len(CITIES) + j is that of CONTRACTS[i]
\* and CITIES[j].
InitContractMap ==
  [k \in 1 .. Len(CONTRACTS) * Len(CITIES) |->
     LET contract == CONTRACTS[((k - 1) \div Len(CITIES)) + 1]
         city == CITIES[((k - 1) % Len(CITIES)) + 1]
     IN [key |-> CompositeKey(contract, city),
         value |-> [contract |-> contract, city |-> city, total |-> 0,
                    dates |-> << >>]]]

\* the count of totals keyed by the city alone
CountTotals_ByCity(m, master, i) ==
  [k \in DOMAIN m |->
     [m[k] EXCEPT !.value.total =
        Cardinality({r \in i .. Len(master) : master[r].city = m[k].value.city})]]

RECURSIVE CountTotals(_, _, _)
\* "Count total employees per contract and city"
CountTotals(m, master, i) ==
  IF i > Len(master) THEN m
  ELSE LET key == CompositeKey(master[i].contract, master[i].city)
       IN CountTotals(
            IF MapHas(m, key)
            THEN MapSet(m, key,
                        [MapGet(m, key) EXCEPT !.total = MapGet(m, key).total + 1])
            ELSE m,
            master, i + 1)

\* a contract assumed for every shift record
RowContract_Default(row) == "MTA"

\* row.contract of a record of prepareRawData: the record has no such
\* property, the template literal renders undefined
RowContract(row) == "undefined"

\* the key under which a shift record is counted
ShiftKey(row) == CompositeKey(RowContract(row), row.city)

RECURSIVE CountDate(_, _, _, _)
\* "Count assignments per contract and city": dateData.forEach for one date
CountDate(m, dateData, dateStr, i) ==
  IF i > Len(dateData) THEN m
  ELSE LET key == ShiftKey(dateData[i])
       IN CountDate(
            IF MapHas(m, key)
            THEN LET data == MapGet(m, key)
                     withDate ==
                       IF MapHas(data.dates, dateStr) THEN data.dates
                       ELSE MapSet(data.dates, dateStr, [assigned |-> 0])
                     counted ==
                       MapSet(withDate, dateStr,
                              [assigned |-> MapGet(withDate, dateStr).assigned + 1])
                 IN MapSet(m, key, [data EXCEPT !.dates = counted])
            ELSE m,
            dateData, dateStr, i + 1)

RECURSIVE CountAssigned(_, _, _, _)
\* "Count assigned employees for each date"
CountAssigned(m, ds, raw, i) ==
  IF i > Len(ds) THEN m
  ELSE LET dateStr == DateKey(ds[i])
           dateData ==
             SelectSeqBy(raw, {k \in DOMAIN raw :
                                 DateKey(raw[k].plannedStartDate) = dateStr})
       IN CountAssigned(CountDate(m, dateData, dateStr, 1), ds, raw, i + 1)

\* (x * 100).toFixed(2) + '%' for x = assigned / total.  The result is held
\* as its text; the rounding is to the nearest hundredth, a tie upwards.
Percentage(assigned, total) ==
  IF total > 0
  THEN LET h == (assigned * 20000 + total) \div (2 * total)
       IN ToString(h \div 100) \o "." \o TwoDigits(h % 100) \o "%"
  ELSE "0%"

\* the row test with >= for >
IncludeRow_OrEmpty(value) == value.total >= 0

\* the test "Only include rows with employees"
IncludeRow(value) == value.total > 0

\* the row written for one entry of contractMap
ReportRow(value, ds) ==
  [contract |-> value.contract, city |-> value.city, total |-> value.total,
   cells |->
     [i \in 1 .. Len(ds) |->
        LET dateStr == DateKey(ds[i])
            assigned ==
              IF MapHas(value.dates, dateStr)
              THEN MapGet(value.dates, dateStr).assigned ELSE 0
        IN [assigned |-> assigned,
            unassigned |-> value.total - assigned,
            percentage |-> Percentage(assigned, value.total)]]]

\* "Populate data": contractMap.forEach in insertion order
ReportRows(m, ds) ==
  LET kept == SelectSeqBy(m, {i \in DOMAIN m : IncludeRow(m[i].value)})
  IN [i \in 1 .. Len(kept) |-> ReportRow(kept[i].value, ds)]

\* generateMasterReport: the rows written below the header
generateMasterReport(ds, master, raw) ==
  ReportRows(
    CountAssigned(CountTotals(InitContractMap, master, 1), ds, raw, 1),
    ds)

(***************************** The run **************************************)
StartAfterEndMessage == "Start date must be before end date"
NoShiftDataMessage == "No valid shift data found in city sheets"
NoEmployeeDataMessage == "No employee data found in 'All' sheet"

NoRows == [c \in Range(CITIES) |-> << >>]

\* report sheets a previous run over day 1 left in the spreadsheet
PriorReportSheets == {MasterName, ShiftsName(1), UnassignedName(1)}

\* a sheet of the user's that is neither an input nor a report
NotesName == PlainName("Notes")

\* the spreadsheet before the first run, holding the sheets `extra` beside
\* the city sheets and 'All'
InitWith(extra) ==
  /\ cityRows = NoRows
  /\ allRows = << >>
  /\ sheets = InputSheets \cup extra
  /\ pc = "idle"
  /\ start = 0
  /\ end = 0
  /\ rawData = << >>
  /\ dates = << >>
  /\ masterData = << >>
  /\ daily = << >>
  /\ report = << >>
  /\ error = ""
  /\ alert = "none"
  /\ before = {}
  /\ written = {}
  /\ deleteFailed = {}

Init == InitWith({})

\* a spreadsheet that may hold the reports of an earlier run and a sheet of
\* the user's
InitSheets ==
  \E extra \in {{}, {NotesName}, PriorReportSheets \cup {NotesName}} :
    InitWith(extra)

TotalRows == Len(Flatten([c \in DOMAIN CITIES |-> cityRows[CITIES[c]]]))

\* the user adds a row to a city sheet
AppendRow(pool) ==
  /\ pc = "idle"
  /\ TotalRows < MaxRows
  /\ \E c \in EditedCities, r \in pool :
       cityRows' = [cityRows EXCEPT ![c] = Append(@, r)]
  /\ UNCHANGED << allRows, sheets, pc, start, end, rawData, dates, masterData,
                  daily, report, error, alert, before, written, deleteFailed >>

\* the user adds a row to the 'All' sheet
AppendRosterRowFrom(pool) ==
  /\ pc = "idle"
  /\ Len(allRows) < MaxRoster
  /\ \E r \in pool : allRows' = Append(allRows, r)
  /\ UNCHANGED << cityRows, sheets, pc, start, end, rawData, dates, masterData,
                  daily, report, error, alert, before, written, deleteFailed >>

AppendRosterRow == AppendRosterRowFrom(RosterRowPool)

\* processSelectedDates, up to "Validate dates"
ProcessSelectedDates ==
  /\ pc = "idle"
  /\ before' = sheets
  /\ \E s \in Days, e \in Days :
       /\ start' = s
       /\ end' = e
       /\ IF StartAfterEnd(s, e)
          THEN pc' = "caught" /\ error' = StartAfterEndMessage
          ELSE pc' = "clear" /\ error' = error
  /\ UNCHANGED << cityRows, allRows, sheets, rawData, dates, masterData, daily,
                  report, alert, written, deleteFailed >>

\* the sheets whose names make them report sheets
ReportNamed(n) == n[1] = "Shifts_" \/ n[1] = "Unassigned_" \/ n = MasterName

\* the sheets clearExistingSheets collects
SheetsToDelete(ss) ==
  {n \in ss : /\ n \notin InputSheets
              /\ (n[1] = "Shifts_" \/ n[1] = "Unassigned_" \/ n = MasterName)}

\* clearExistingSheets with no try around deleteSheet: the first failure
\* leaves the loop and the run
ClearExistingSheets_AbortOnFailure ==
  /\ pc = "clear"
  /\ \E failed \in SUBSET SheetsToDelete(sheets) :
       /\ deleteFailed' = failed
       /\ IF failed = {}
          THEN /\ sheets' = sheets \ SheetsToDelete(sheets)
               /\ pc' = "ingest"
               /\ error' = error
          ELSE /\ sheets' = sheets
               /\ pc' = "caught"
               /\ error' = "Could not delete sheet"
  /\ UNCHANGED << cityRows, allRows, start, end, rawData, dates, masterData,
                  daily, report, alert, before, written >>

\* clearExistingSheets: deleteSheet may throw for any of the sheets; the
\* catch logs it and the loop goes on
ClearExistingSheets ==
  /\ pc = "clear"
  /\ \E failed \in SUBSET SheetsToDelete(sheets) :
       /\ deleteFailed' = failed
       /\ sheets' = sheets \ (SheetsToDelete(sheets) \ failed)
  /\ pc' = "ingest"
  /\ UNCHANGED << cityRows, allRows, start, end, rawData, dates, masterData,
                  daily, report, error, alert, before, written >>

\* const rawData = prepareRawData(ss) and the test that follows
PrepareRawData ==
  /\ pc = "ingest"
  /\ rawData' = prepareRawData(sheets, cityRows)
  /\ IF Len(rawData') = 0
     THEN pc' = "caught" /\ error' = NoShiftDataMessage
     ELSE pc' = "range" /\ error' = error
  /\ UNCHANGED << cityRows, allRows, sheets, start, end, dates, masterData,
                  daily, report, alert, before, written, deleteFailed >>

\* const dates = getDateRange(start, end)
GetDateRange ==
  /\ pc = "range"
  /\ dates' = getDateRange(start, end)
  /\ pc' = "roster"
  /\ UNCHANGED << cityRows, allRows, sheets, start, end, rawData, masterData,
                  daily, report, error, alert, before, written, deleteFailed >>

\* getMasterData followed at once by generateMasterReport, the daily
\* reports left for later
GetMasterData_ReportFirst ==
  /\ pc = "roster"
  /\ masterData' = getMasterData(sheets, allRows)
  /\ IF Len(masterData') = 0
     THEN pc' = "caught" /\ error' = NoEmployeeDataMessage
     ELSE pc' = "master" /\ error' = error
  /\ UNCHANGED << cityRows, allRows, sheets, start, end, rawData, dates, daily,
                  report, alert, before, written, deleteFailed >>

\* const masterData = getMasterData(ss) and the test that follows
GetMasterData ==
  /\ pc = "roster"
  /\ masterData' = getMasterData(sheets, allRows)
  /\ IF Len(masterData') = 0
     THEN pc' = "caught" /\ error' = NoEmployeeDataMessage
     ELSE /\ pc' = IF dates = << >> THEN "master" ELSE "daily"
          /\ error' = error
  /\ UNCHANGED << cityRows, allRows, sheets, start, end, rawData, dates, daily,
                  report, alert, before, written, deleteFailed >>

\* one iteration of dates.forEach: processDailyData and createDailySheets
\* (insertSheet throws when a sheet of that name exists)
DailyReport ==
  /\ pc = "daily"
  /\ LET date == dates[Len(daily) + 1]
         dailyData == processDailyData(rawData, date, masterData)
     IN /\ daily' = Append(daily, [date |-> date,
                                   assigned |-> dailyData.assigned,
                                   unassigned |-> dailyData.unassigned])
        /\ IF ShiftsName(date) \in sheets
           THEN /\ sheets' = sheets
                /\ written' = written
                /\ pc' = "caught"
                /\ error' = "A sheet with that name already exists"
           ELSE IF UnassignedName(date) \in sheets
           THEN /\ sheets' = sheets \cup {ShiftsName(date)}
                /\ written' = written \cup {ShiftsName(date)}
                /\ pc' = "caught"
                /\ error' = "A sheet with that name already exists"
           ELSE /\ sheets' = sheets \cup {ShiftsName(date), UnassignedName(date)}
                /\ written' = written \cup {ShiftsName(date), UnassignedName(date)}
                /\ pc' = IF Len(daily') = Len(dates) THEN "master" ELSE "daily"
                /\ error' = error
  /\ UNCHANGED << cityRows, allRows, start, end, rawData, dates, masterData,
                  report, alert, before, deleteFailed >>

\* generateMasterReport(ss, dates, masterData, rawData)
GenerateMasterReport ==
  /\ pc = "master"
  /\ sheets' = sheets \cup {MasterName}
  /\ written' = written \cup {MasterName}
  /\ report' = generateMasterReport(dates, masterData, rawData)
  /\ pc' = "notify"
  /\ UNCHANGED << cityRows, allRows, start, end, rawData, dates, masterData,
                  daily, error, alert, before, deleteFailed >>

\* showSuccessNotification (formatDate of dates[0] throws when there is none)
ShowSuccessNotification ==
  /\ pc = "notify"
  /\ IF dates = << >>
     THEN pc' = "caught" /\ error' = "Invalid argument: date" /\ alert' = alert
     ELSE pc' = "done" /\ error' = error /\ alert' = "Report Generated"
  /\ UNCHANGED << cityRows, allRows, sheets, start, end, rawData, dates,
                  masterData, daily, report, before, written, deleteFailed >>

\* a catch block that only logs the error
HandleError_LogOnly ==
  /\ pc = "caught"
  /\ pc' = "done"
  /\ UNCHANGED << cityRows, allRows, sheets, start, end, rawData, dates,
                  masterData, daily, report, error, alert, before, written,
                  deleteFailed >>

\* catch (error) { handleError(error) }
HandleError ==
  /\ pc = "caught"
  /\ alert' = "Error"
  /\ pc' = "done"
  /\ UNCHANGED << cityRows, allRows, sheets, start, end, rawData, dates,
                  masterData, daily, report, error, before, written,
                  deleteFailed >>

Run ==
  \/ ProcessSelectedDates
  \/ ClearExistingSheets
  \/ PrepareRawData
  \/ GetDateRange
  \/ GetMasterData
  \/ DailyReport
  \/ GenerateMasterReport
  \/ ShowSuccessNotification
  \/ HandleError

Next == AppendRow(ShiftRowPool) \/ AppendRosterRow \/ Run

Spec == Init /\ [][Next]_vars

\* the same run over sheets that hold any kind of raw row
NextIngest == AppendRow(IngestRowPool) \/ AppendRosterRow \/ Run

SpecIngest == Init /\ [][NextIngest]_vars

\* rows and roster of the runs over a spreadsheet with earlier sheets
SheetRowPool ==
  { RawRow(Text(Chars_e1), Text(Completed), 1, TimeOfDay(9, 0), TimeOfDay(17, 30)),
    RawRow(Text(Chars_e1), Text(no_show), 2, TimeOfDay(9, 0), TimeOfDay(17, 30)) }

SheetRosterPool == { RosterRow(Text(Chars_e1), "MTA", "Assiut") }

\* the same run over a spreadsheet that holds earlier sheets
NextSheets == AppendRow(SheetRowPool) \/ AppendRosterRowFrom(SheetRosterPool) \/ Run

SpecSheets == InitSheets /\ [][NextSheets]_vars

(***************************** Properties ********************************)
\* prepareRawData has returned in this run
RawIngested ==
  /\ pc \notin {"idle", "clear", "ingest"}
  /\ error # StartAfterEndMessage

\* getDateRange has returned in this run
DatesComputed ==
  /\ pc \notin {"idle", "clear", "ingest", "range"}
  /\ error \notin {StartAfterEndMessage, NoShiftDataMessage}

\* generateMasterReport has returned in this run
ReportWritten == pc = "notify" \/ (pc = "done" /\ alert = "Report Generated")

\* the employee ids of the retained shift records of day d
AssignedIdsOn(d) ==
  {rawData[i].employeeId :
     i \in {k \in DOMAIN rawData : rawData[k].plannedStartDate = d}}

\* the retained shift records of employee id on day d
RecordsOf(id, d) ==
  {k \in DOMAIN rawData :
     rawData[k].plannedStartDate = d /\ rawData[k].employeeId = id}

\* the roster entries of a (contract, city) pair
RosterOf(contract, city) ==
  {r \in DOMAIN masterData :
     masterData[r].contract = contract /\ masterData[r].city = city}

\* the roster entries of a pair that have a retained shift record on day d
RosterAssignedOn(contract, city, d) ==
  {r \in RosterOf(contract, city) : masterData[r].id \in AssignedIdsOn(d)}

\* position of a pair in the Contract x City enumeration, 0 when absent
EnumIndex(contract, city) ==
  IF \E i \in DOMAIN CONTRACTS, j \in DOMAIN CITIES :
       CONTRACTS[i] = contract /\ CITIES[j] = city
  THEN LET i == CHOOSE i \in DOMAIN CONTRACTS : CONTRACTS[i] = contract
           j == CHOOSE j \in DOMAIN CITIES : CITIES[j] = city
       IN (i - 1) * Len(CITIES) + j
  ELSE 0

\* C1: for every date classified and every roster entry, the entry's id is
\* in exactly one of: the employee ids of the day's retained shift records,
\* the ids of the day's unassigned list.
C1_ExactlyOneSet ==
  \A k \in DOMAIN daily : \A r \in DOMAIN masterData :
    LET unassignedIds == {daily[k].unassigned[i].id : i \in DOMAIN daily[k].unassigned}
    IN /\ {daily[k].assigned[i].employeeId : i \in DOMAIN daily[k].assigned}
            = AssignedIdsOn(daily[k].date)
       /\ (masterData[r].id \in AssignedIdsOn(daily[k].date))
            # (masterData[r].id \in unassignedIds)

\* C1 witness: a classified date with one roster entry on each side, while
\* another date has shift records too.
C1_Witness ==
  \E k \in DOMAIN daily :
    /\ \E r \in DOMAIN masterData : masterData[r].id \in AssignedIdsOn(daily[k].date)
    /\ daily[k].unassigned # << >>
    /\ \E d \in Days : d # daily[k].date /\ AssignedIdsOn(d) # {}

\* C2: in every emitted row every date cell has assigned + unassigned =
\* total, there is one cell per date of the range, and total is the number
\* of roster entries whose contract and city are exactly the row's.
C2_CellsSumToTotal ==
  ReportWritten =>
    \A i \in DOMAIN report :
      /\ Len(report[i].cells) = Len(dates)
      /\ report[i].total = Cardinality(RosterOf(report[i].contract, report[i].city))
      /\ \A j \in DOMAIN report[i].cells :
           report[i].cells[j].assigned + report[i].cells[j].unassigned
             = report[i].total

\* C2 witness: a row of two employees over a range of two dates, beside a
\* roster entry that belongs to no pair of the enumeration.
C2_Witness ==
  /\ ReportWritten
  /\ \E i \in DOMAIN report : report[i].total = 2 /\ Len(report[i].cells) >= 2

\* C3: when no employee has more than one shift record on a date, the
\* assigned count of a cell is the number of roster entries of the pair
\* that have a retained shift record on that date.
C3_AssignedJoinsRoster ==
  (/\ ReportWritten
   /\ \A d \in Days : \A id \in AssignedIdsOn(d) : Cardinality(RecordsOf(id, d)) = 1)
  => \A i \in DOMAIN report : \A j \in DOMAIN report[i].cells :
       report[i].cells[j].assigned
         = Cardinality(RosterAssignedOn(report[i].contract, report[i].city, dates[j]))

\* C4: an employee with two or more shift records on a date is counted
\* once: in every cell 0 <= assigned <= total, and in a cell where an
\* employee of the pair has several records the count is the number of
\* employees of the pair that have a record.
C4_DuplicateCountedOnce ==
  ReportWritten =>
    \A i \in DOMAIN report : \A j \in DOMAIN report[i].cells :
      /\ 0 <= report[i].cells[j].assigned
      /\ report[i].cells[j].assigned <= report[i].total
      /\ (\E r \in RosterOf(report[i].contract, report[i].city) :
            Cardinality(RecordsOf(masterData[r].id, dates[j])) >= 2)
         => report[i].cells[j].assigned
              = Cardinality(RosterAssignedOn(report[i].contract, report[i].city, dates[j]))

C6_RangeInclusiveAscending ==
  DatesComputed =>
    /\ Len(dates) = (end - start) + 1
    /\ dates[1] = start
    /\ dates[Len(dates)] = end
    /\ \A i \in 1 .. (Len(dates) - 1) : dates[i + 1] = dates[i] + 1

\* C6 witness: a range of several days has been generated.
C6_Witness == DatesComputed /\ start < end /\ Len(dates) >= 2

\* C7: every emitted row has total > 0, and a pair of the enumeration is a
\* row exactly once when the roster has an entry of it, never otherwise.
C7_RowsAreThePairsWithEmployees ==
  ReportWritten =>
    /\ \A i \in DOMAIN report : report[i].total > 0
    /\ \A c \in DOMAIN CONTRACTS, y \in DOMAIN CITIES :
         Cardinality({i \in DOMAIN report :
                        report[i].contract = CONTRACTS[c] /\ report[i].city = CITIES[y]})
           = IF RosterOf(CONTRACTS[c], CITIES[y]) # {} THEN 1 ELSE 0

\* C7 witness: a report of one row while shift records exist in a city of
\* which the roster has no entry.
C7_Witness ==
  /\ ReportWritten
  /\ Len(report) = 1
  /\ \E k \in DOMAIN rawData : \A r \in DOMAIN masterData :
       masterData[r].city # rawData[k].city

\* C8: the rows are in the order of the Contract x City enumeration, and
\* the report does not depend on the order of roster entries and shift
\* records.
C8_RowOrderIsEnumerationOrder ==
  ReportWritten =>
    /\ \A i \in DOMAIN report : EnumIndex(report[i].contract, report[i].city) > 0
    /\ \A i \in DOMAIN report : \A j \in DOMAIN report :
         i < j => EnumIndex(report[i].contract, report[i].city)
                    < EnumIndex(report[j].contract, report[j].city)
    /\ report = generateMasterReport(dates, Reverse(masterData), Reverse(rawData))

\* C8 witness: two rows, the roster listing the later pair first.
C8_Witness ==
  /\ ReportWritten
  /\ Len(report) = 2
  /\ Len(masterData) = 2
  /\ EnumIndex(masterData[1].contract, masterData[1].city)
       > EnumIndex(masterData[2].contract, masterData[2].city)
  /\ EnumIndex(masterData[2].contract, masterData[2].city) > 0

\* C9: no retained record has a status that contains NO_SHOW or EXCUSED in
\* any letter case, and every raw row with a non-empty employee id and a
\* non-empty text status without those words is retained.
C9_ExcludedDroppedOthersKept ==
  RawIngested =>
    /\ \A k \in DOMAIN rawData : ~ExcludedPattern(rawData[k].shiftStatus)
    /\ \A c \in EditedCities : \A i \in DOMAIN cityRows[c] :
         LET row == cityRows[c][i]
         IN (/\ Trim(String(row.id)) # << >>
             /\ ~row.status.num
             /\ Trim(String(row.status)) # << >>
             /\ ~ExcludedPattern(String(row.status)))
            => \E k \in DOMAIN rawData :
                 /\ rawData[k].employeeId = Trim(String(row.id))
                 /\ rawData[k].shiftStatus = Trim(String(row.status))
                 /\ rawData[k].plannedStartDate = row.date
                 /\ rawData[k].city = c

\* C10: every retained record has a trimmed, non-empty employeeId.
C10_EmployeeIdNonEmpty ==
  RawIngested =>
    \A k \in DOMAIN rawData :
      /\ rawData[k].employeeId # << >>
      /\ Trim(rawData[k].employeeId) = rawData[k].employeeId

\* the three validation errors of processSelectedDates
ValidationMessages ==
  {StartAfterEndMessage, NoShiftDataMessage, NoEmployeeDataMessage}

\* getMasterData has returned in this run
RosterLoaded ==
  /\ pc \notin {"idle", "clear", "ingest", "range", "roster"}
  /\ error \notin {StartAfterEndMessage, NoShiftDataMessage}

\* C11: each of the three precondition violations ends the run in its
\* error, which the alert shows; such a run writes no daily sheet and no
\* master report and never shows the success notification.
C11_ValidationAborts ==
  /\ (pc # "idle" /\ start > end) => error = StartAfterEndMessage
  /\ (RawIngested /\ rawData = << >>) => error = NoShiftDataMessage
  /\ (RosterLoaded /\ masterData = << >>) => error = NoEmployeeDataMessage
  /\ error \in ValidationMessages =>
       /\ pc \in {"caught", "done"}
       /\ written = {}
       /\ daily = << >>
       /\ report = << >>
       /\ alert # "Report Generated"
       /\ pc = "done" => alert = "Error"

\* C11 witness: a run over sheets whose rows are all excluded has ended in
\* the error alert, reports of an earlier run being there before.
C11_Witness ==
  /\ pc = "done"
  /\ error = NoShiftDataMessage
  /\ alert = "Error"
  /\ TotalRows > 0
  /\ MasterName \in before

\* the retained shift records whose employeeId is the id of a roster entry
MatchedRecords ==
  SelectSeqBy(rawData,
              {k \in DOMAIN rawData :
                 \E r \in DOMAIN masterData : masterData[r].id = rawData[k].employeeId})

\* C12: a shift record whose employeeId matches no roster entry raises no
\* error and is counted nowhere: the report is the report of the records
\* that have a roster match.
C12_UnmatchedNotCounted ==
  /\ ReportWritten => error = ""
  /\ pc = "notify" =>
       report = generateMasterReport(dates, masterData, MatchedRecords)

\* C12 witness: a report with a row for the city of a record that has no
\* roster match, made over a range that holds the record's date.
C12_Witness ==
  /\ pc = "notify"
  /\ error = ""
  /\ \E k \in DOMAIN rawData :
       /\ \A r \in DOMAIN masterData : masterData[r].id # rawData[k].employeeId
       /\ \E i \in DOMAIN report : report[i].city = rawData[k].city
       /\ \E j \in DOMAIN dates : dates[j] = rawData[k].plannedStartDate

\* prepareRawData has returned and nothing has run since
RawJustIngested ==
  pc = "range" \/ (pc = "caught" /\ error = NoShiftDataMessage)

\* the time field asked of a retained row
ExpectedTime(cell) ==
  IF cell.kind = "date"
  THEN TwoDigits(cell.min \div 60) \o ":" \o TwoDigits(cell.min % 60)
  ELSE "Invalid Time"

\* the city sheets with every empty or unparsable time cell replaced by a
\* good one
WithGoodTimes ==
  [c \in DOMAIN cityRows |->
     [i \in DOMAIN cityRows[c] |->
        [cityRows[c][i] EXCEPT
           !.startTime = IF @.kind = "date" THEN @ ELSE TimeOfDay(0, 0),
           !.endTime = IF @.kind = "date" THEN @ ELSE TimeOfDay(0, 0)]]]

\* C13: an empty or unparsable time cell neither drops its row nor changes
\* anything else: the records are those of the sheets with good time cells,
\* field by field except the times, and a row with an acceptable id and
\* status is retained with the sentinel in the field of a bad cell.
C13_BadTimeKeepsRow ==
  RawJustIngested =>
    LET alt == prepareRawData(sheets, WithGoodTimes)
    IN /\ Len(rawData) = Len(alt)
       /\ \A k \in DOMAIN rawData :
            /\ rawData[k].employeeId = alt[k].employeeId
            /\ rawData[k].shiftStatus = alt[k].shiftStatus
            /\ rawData[k].plannedStartDate = alt[k].plannedStartDate
            /\ rawData[k].city = alt[k].city
       /\ \A c \in EditedCities : \A i \in DOMAIN cityRows[c] :
            LET row == cityRows[c][i]
            IN (Truthy(row.id) /\ isValidShift(row.status)) =>
                 \E k \in DOMAIN rawData :
                   /\ rawData[k].employeeId = Trim(String(row.id))
                   /\ rawData[k].plannedStartDate = row.date
                   /\ rawData[k].city = c
                   /\ rawData[k].plannedStartTime = ExpectedTime(row.startTime)
                   /\ rawData[k].plannedEndTime = ExpectedTime(row.endTime)

\* C13 witness: two rows retained, one with an unparsable end time and one
\* with an empty start time.
C13_Witness ==
  /\ RawJustIngested
  /\ Len(rawData) >= 2
  /\ \E c \in EditedCities : \E i \in DOMAIN cityRows[c] :
       cityRows[c][i].endTime.kind = "text"
  /\ \E c \in EditedCities : \E i \in DOMAIN cityRows[c] :
       cityRows[c][i].startTime.kind = "empty"
  /\ \E k \in DOMAIN rawData : rawData[k].plannedEndTime = "Invalid Time"
  /\ \E k \in DOMAIN rawData : rawData[k].plannedStartTime = "Invalid Time"

\* the daily sheets of the dates of the range
DailySheetsOf(ds) ==
  {ShiftsName(ds[i]) : i \in DOMAIN ds} \cup {UnassignedName(ds[i]) : i \in DOMAIN ds}

\* what C14 asks of one step
C14_Step ==
  /\ (rawData' # rawData \/ masterData' # masterData) => daily = << >>
  /\ daily' # daily =>
       /\ rawData # << >> /\ rawData' = rawData
       /\ masterData # << >> /\ masterData' = masterData
       /\ Len(daily') = Len(daily) + 1
       /\ daily'[Len(daily')].date = dates[Len(daily')]
       /\ daily # << >> => daily'[Len(daily')].date > daily[Len(daily)].date
  /\ MasterName \in written' \ written =>
       /\ Len(daily) = Len(dates)
       /\ DailySheetsOf(dates) \subseteq written
  /\ alert' # alert =>
       /\ alert = "none"
       /\ pc' = "done"
       /\ alert' = "Report Generated" => (MasterName \in written /\ error = "")
       /\ alert' = "Error" => error # ""
  /\ (pc' = "done" /\ pc # "done") =>
       /\ alert = "none"
       /\ alert' \in {"Report Generated", "Error"}

\* C14: ingestion and roster come before the first date is classified, the
\* dates are classified in ascending order, the master report is written
\* after every date of the range is classified and written, the success
\* notification follows the master report, and a run ends with exactly one
\* alert, the success notification or the error.
C14_StagesInOrder == [][C14_Step]_vars

\* C14 witness: a run over several dates has ended with the success
\* notification.
C14_Witness ==
  /\ pc = "done"
  /\ alert = "Report Generated"
  /\ Len(daily) >= 2

\* C15: in every emitted row the unassigned count of a date is the number
\* of roster entries of the row's pair in the unassigned list of that date.
C15_ReportAgreesWithDaily ==
  ReportWritten =>
    \A i \in DOMAIN report : \A j \in DOMAIN report[i].cells :
      report[i].cells[j].unassigned
        = Cardinality({u \in DOMAIN daily[j].unassigned :
                         /\ daily[j].unassigned[u].contract = report[i].contract
                         /\ daily[j].unassigned[u].city = report[i].city})

\* what C16 asks of the step of clearExistingSheets
C16_Step ==
  pc = "clear" =>
    /\ sheets' \subseteq sheets
    /\ (InputSheets \cap sheets) \subseteq sheets'
    /\ \A n \in sheets \ sheets' : ReportNamed(n)
    /\ \A n \in sheets \ InputSheets :
         ReportNamed(n) => (n \notin sheets' \/ n \in deleteFailed')
    /\ pc' = "ingest"
    /\ error' = error

\* C16: clearExistingSheets deletes no city sheet and not 'All', deletes
\* only sheets named Master_Report, Shifts_... or Unassigned_..., deletes
\* every such sheet whose deletion does not fail, and the run goes on.
C16_ClearKeepsInputs == [][C16_Step]_vars

\* C16 witness: after clearExistingSheets one report sheet is left because
\* its deletion failed, another is gone, the user's sheet is there.
C16_Witness ==
  /\ pc = "ingest"
  /\ deleteFailed # {}
  /\ before \ sheets # {}
  /\ NotesName \in sheets

\* C17: a run that ends in a validation error leaves the set of sheets as
\* it was before the run.
C17_ValidationLeavesSheets ==
  (pc = "done" /\ error \in ValidationMessages) => sheets = before

====
